---- MODULE Spec2Model ----
(***************************************************************************)
(* Audit-and-signing reconciliation of the release controller              *)
(* (cmd/release-controller/audit.go): the AuditTracker registry, the       *)
(* per-tag reconciler syncAuditTag, the job admission throttle and the     *)
(* verification backends, as a state machine.                              *)
(*                                                                         *)
(* Time is counted in minutes.                                             *)
(***************************************************************************)
EXTENDS Integers, Sequences, FiniteSets, Bags, TLC

\* ------------------------------------------------------------------ bounds
\* How many times the clock may be advanced in one behaviour.
MaxAdvances == 3

\* ------------------------------------------------------- program constants
\* 12*time.Hour, in minutes.
Cooldown == 720
\* `count > 2` in syncAuditTag.
ThrottleLimit == 2
\* AddAfter(releaseName, 10*time.Second): the delay, in seconds.
RequeueDelay == 10
\* `len(name) > 63` in ensureAuditVerifyJob.
MaxJobName == 63

\* ----------------------------------------------------------------- strings
\* A string the code takes apart is a sequence of pieces: the algorithm
\* "sha256", the separator ":", the prefix "verify-", "-", and blocks of eight
\* hexadecimal characters.  A digest "sha256:<64 hex>" is ten pieces.
PieceLen(piece) ==
  CASE piece \in {":", "-"} -> 1
    [] piece = "sha256" -> 6
    [] piece = "verify-" -> 7
    [] OTHER -> 8

\* len(s), in characters.
RECURSIVE StrLen(_)
StrLen(s) == IF s = <<>> THEN 0 ELSE PieceLen(Head(s)) + StrLen(Tail(s))

\* s[:n], for an n that falls between two pieces of s.
RECURSIVE Prefix(_, _)
Prefix(s, n) ==
  IF s = <<>> \/ PieceLen(Head(s)) > n THEN <<>>
  ELSE <<Head(s)>> \o Prefix(Tail(s), n - PieceLen(Head(s)))

Hex(block, n) == [i \in 1..n |-> block]

\* Four digests and the empty digest.  DigestA and DigestB differ in their
\* last eight hexadecimal characters only.
DigestA == <<"sha256", ":">> \o Hex("aaaaaaaa", 8)
DigestB == <<"sha256", ":">> \o Hex("aaaaaaaa", 7) \o <<"bbbbbbbb">>
DigestC == <<"sha256", ":">> \o Hex("cccccccc", 8)
DigestD == <<"sha256", ":">> \o Hex("dddddddd", 8)
NoDigest == <<>>

\* Index of the first ":" of s from i on, 0 when there is none.
RECURSIVE IndexOfColon(_, _)
IndexOfColon(s, i) ==
  IF i > Len(s) THEN 0
  ELSE IF s[i] = ":" THEN i
  ELSE IndexOfColon(s, i + 1)

\* strings.Replace(name, ":", "-", -1)
ReplaceColons(s) == [i \in 1..Len(s) |-> IF s[i] = ":" THEN "-" ELSE s[i]]

\* fmt.Sprintf("verify-%s", parts[1]) when strings.SplitN(id, ":", 2) gives
\* two parts at the colon k, else id.
Named(id, k) == IF k > 0 THEN <<"verify-">> \o SubSeq(id, k + 1, Len(id)) ELSE id

\* name[:63] when len(name) > 63.
Truncated(name) == IF StrLen(name) > MaxJobName THEN Prefix(name, MaxJobName) ELSE name

\* The job name ensureAuditVerifyJob derives from record.ID, each statement
\* working on the value the one before it computed.
JobName(id) ==
  CHOOSE name \in
    { Truncated(safe) :
        safe \in { ReplaceColons(named) :
                     named \in { Named(id, k) : k \in {IndexOfColon(id, 1)} } } } : TRUE

\* ------------------------------------------------------------------- state
VARIABLES
  records,           \* AuditTracker.records: tag name -> AuditRecord
  queue,             \* auditQueue: the tag names waiting to be reconciled
  delayed,           \* auditQueue: the tag names added with a delay, not yet due
  now,               \* the wall clock, in minutes
  advances,          \* how often the clock was advanced
  cliImageForAudit,  \* Controller.cliImageForAudit
  signer,            \* whether Controller.signer is configured (non-nil)
  jobs,              \* the job control plane: job name -> job
  signatures,        \* the signature store: the set of <<digest, signature>>
  pc,                \* per tag name: where its syncAuditTag stands, or what it returned
  rec,               \* per tag name: the record copy its syncAuditTag got
  trace,             \* per tag name: the calls its running syncAuditTag has made
  signCalls,         \* history: the digests Sign was invoked with
  putCalls,          \* history: the digests PutSignature was invoked with
  failedAt           \* history: per tag name, when SetFailure last marked its record

vars == <<records, queue, delayed, now, advances, cliImageForAudit, signer, jobs,
          signatures, pc, rec, trace, signCalls, putCalls, failedAt>>

clock == <<now, advances>>
config == <<cliImageForAudit, signer>>
history == <<signCalls, putCalls, failedAt>>
worker == <<pc, rec, trace>>

\* The tag names of the model.
TagNames == {"t1", "t2"}

\* *AuditFailure: <<>> is nil, <<f>> points to f.
NoFailure == <<>>
AuditFailure(message) == <<[Reason |-> "VerificationFailed", Message |-> message]>>

AuditRecord(at, name, id, location, rel, isName, isNamespace) ==
  [At |-> at, Name |-> name, ID |-> id, Location |-> location,
   Release |-> rel, ImageStreamName |-> isName, ImageStreamNamespace |-> isNamespace,
   Failure |-> NoFailure]

\* What a worker holds when it reconciles nothing.
NoRecord == AuditRecord(0, "", NoDigest, "", "", "", "")

Tracked(t) == t \in DOMAIN records
HasFailure(r) == r.Failure # NoFailure

\* AuditStore.HasSignature
HasSignature(dgst) == \E s \in signatures : s[1] = dgst


\* --------------------------------------------------- release descriptions
\* releaseConfigModeStable
releaseConfigModeStable == "Stable"

\* One tag of release.Target.Spec.Tags.  Source says whether the tag carries
\* the releaseAnnotationSource annotation, Phase is its releaseAnnotationPhase
\* annotation, ID and Location are what the image stream resolves it to.
TagEntry(name, source, phase, id, location) ==
  [Name |-> name, Source |-> source, Phase |-> phase, ID |-> id, Location |-> location]

\* A release as Sync reads it: Config.Name, Config.As, Source (the image
\* stream) and the tags of Target.
ReleaseDesc(name, as, tags) ==
  [Name |-> name, As |-> as, SourceNamespace |-> "ocp", SourceName |-> name,
   Tags |-> tags]

\* No two tags of an image stream share a name.
UniqueNames(tags) == \A x, y \in tags : x.Name = y.Name => x = y

\* The tag lists that can be drawn from a set of possible tags.
TagLists(entries) == {ts \in SUBSET entries : UniqueNames(ts)}

\* The tag of the release with this name.
TagNamed(rl, name) == CHOOSE tag \in rl.Tags : tag.Name = name

findImageIDForTag(rl, name) == TagNamed(rl, name).ID

findPublicImagePullSpec(rl, name) == TagNamed(rl, name).Location

\* ------------------------------------------------------------ AuditTracker
\* The tags Sync does not skip.
Audited(tag) ==
  /\ tag.Source
  /\ tag.Name # ""
  /\ tag.Phase \in {"Accepted", "Ready", "Rejected"}

\* The set `found` Sync builds.
Found(rl) == {tag.Name : tag \in {x \in rl.Tags : Audited(x)}}

\* Mutant: the cooldown is over at 12 hours sharp.
CooldownElapsed_AtTwelveHours(existing, time) == time - existing.At >= Cooldown

\* time.Now().Sub(existing.At) > 12*time.Hour
CooldownElapsed(existing, time) == time - existing.At > Cooldown

\* The record Sync stores for a tag it sees for the first time.
NewRecord(rl, name, time) ==
  AuditRecord(time, name, findImageIDForTag(rl, name), findPublicImagePullSpec(rl, name),
              rl.Name, rl.SourceName, rl.SourceNamespace)

\* Mutant: the cooldown refreshes observedAt and keeps the failure.
Refreshed_KeepingFailure(existing, time) ==
  IF CooldownElapsed(existing, time)
  THEN [existing EXCEPT !.At = time]
  ELSE existing

\* What Sync does to the record of a tag it already tracks.
Refreshed(existing, time) ==
  IF CooldownElapsed(existing, time)
  THEN [existing EXCEPT !.At = time, !.Failure = NoFailure]
  ELSE existing

\* `changed` of Sync for a tag it already tracks.
Changed(existing, rl, name, time) ==
  \/ existing.Location # findPublicImagePullSpec(rl, name)
  \/ existing.ID # findImageIDForTag(rl, name)
  \/ CooldownElapsed(existing, time)

\* Mutant: any change, drift included, refreshes the record and clears its failure.
Upserted_ClearingOnDrift(recs, rl, time) ==
  [name \in DOMAIN recs \cup Found(rl) |->
     IF name \in Found(rl)
     THEN IF name \in DOMAIN recs
          THEN IF Changed(recs[name], rl, name, time)
               THEN [recs[name] EXCEPT !.At = time, !.Failure = NoFailure]
               ELSE recs[name]
          ELSE NewRecord(rl, name, time)
     ELSE recs[name]]

\* The first loop of Sync: add or update tags.
Upserted(recs, rl, time) ==
  [name \in DOMAIN recs \cup Found(rl) |->
     IF name \in Found(rl)
     THEN IF name \in DOMAIN recs
          THEN Refreshed(recs[name], time)
          ELSE NewRecord(rl, name, time)
     ELSE recs[name]]

\* The second loop of Sync: remove old tags.
Stale(recs, rl) == {k \in DOMAIN recs : recs[k].Release = rl.Name /\ k \notin Found(rl)}

Pruned(recs, rl) == [k \in DOMAIN recs \ Stale(recs, rl) |-> recs[k]]

\* The tag names Sync adds to the queue.
Enqueued(recs, rl, time) ==
  {name \in Found(rl) : name \notin DOMAIN recs \/ Changed(recs[name], rl, name, time)}

\* Mutant: Sync stores the digest and location it resolved for a tracked tag.
Sync_StoringDrift(rl) ==
  /\ IF rl.As # releaseConfigModeStable
     THEN UNCHANGED <<records, queue>>
     ELSE LET upserted == Upserted(records, rl, now)
              stored == [name \in DOMAIN upserted |->
                           IF name \in Found(rl)
                           THEN [upserted[name] EXCEPT
                                   !.ID = findImageIDForTag(rl, name),
                                   !.Location = findPublicImagePullSpec(rl, name)]
                           ELSE upserted[name]]
          IN /\ records' = Pruned(stored, rl)
             /\ queue' = queue \cup Enqueued(records, rl, now)
  /\ UNCHANGED <<delayed, clock, config, jobs, signatures, worker, history>>

\* AuditTracker.Sync, as syncAudit calls it.
Sync(rl) ==
  /\ IF rl.As # releaseConfigModeStable
     THEN UNCHANGED <<records, queue>>
     ELSE /\ records' = Pruned(Upserted(records, rl, now), rl)
          /\ queue' = queue \cup Enqueued(records, rl, now)
  /\ UNCHANGED <<delayed, clock, config, jobs, signatures, worker, history>>

\* Mutant: SetFailure leaves observedAt as it was.
SetFailure_KeepingAt(recs, name, message, time) ==
  IF name \in DOMAIN recs
  THEN [recs EXCEPT ![name] = [@ EXCEPT !.Failure = AuditFailure(message)]]
  ELSE recs

\* AuditTracker.SetFailure: the records after it.
SetFailure(recs, name, message, time) ==
  IF name \in DOMAIN recs
  THEN [recs EXCEPT ![name] = [@ EXCEPT !.At = time, !.Failure = AuditFailure(message)]]
  ELSE recs

\* AuditTracker.Get: whether the record exists; the copy is recs[name].
Get(recs, name) == name \in DOMAIN recs


\* ------------------------------------------------------------- job control
\* A job as ensureAuditVerifyJob creates it: the location its verify command
\* is given, the release tag annotation, the purpose label, and its status
\* (State "running": no CompletionTime; "succeeded"/"failed": complete).
NewJob(record) ==
  [Location |-> record.Location, ReleaseTag |-> record.Name, Purpose |-> "audit",
   State |-> "running"]

\* auditVerifyJobSelector
auditVerifyJobSelector(job) == job.Purpose = "audit"

\* Mutant: jobs with a completion time are counted too.
UnfinishedCount_CountingFinished(js) ==
  Cardinality({n \in DOMAIN js : auditVerifyJobSelector(js[n])})

\* The loop of countAuditVerifyJobs over a successful listing.
UnfinishedCount(js) ==
  Cardinality({n \in DOMAIN js : auditVerifyJobSelector(js[n]) /\ js[n].State = "running"})

\* Mutant: the listing error is dropped and the count reported as good.
countAuditVerifyJobs_IgnoringError(js, listFails) == <<UnfinishedCount(js), TRUE>>

\* countAuditVerifyJobs: <<count, ok>>, given whether the listing failed.
countAuditVerifyJobs(js, listFails) ==
  IF listFails THEN <<0, FALSE>> ELSE <<UnfinishedCount(js), TRUE>>

\* Mutant: the throttle starts one job later.
Throttled_AboveThree(counted) == ~counted[2] \/ counted[1] > ThrottleLimit + 1

\* `!ok || count > 2` of syncAuditTag.
Throttled(counted) == ~counted[2] \/ counted[1] > ThrottleLimit

\* ensureJob: the job of that name if there is one, else a new one.
ensureJob(js, name, record) ==
  IF name \in DOMAIN js THEN js
  ELSE [n \in DOMAIN js \cup {name} |-> IF n = name THEN NewJob(record) ELSE js[n]]

\* jobIsComplete: <<success, complete>>
jobIsComplete(job) == <<job.State = "succeeded", job.State # "running">>

\* -------------------------------------------------------------- reconciler
\* The image syncAuditTag verifies with.
AuditImage(pinned, override) == IF pinned # "" THEN pinned ELSE override

\* `record.Failure != nil` of syncAuditTag.
Gated(record) == record.Failure # NoFailure

\* `len(record.ID) == 0` of syncAuditTag.
Unverifiable(record) == Len(record.ID) = 0

\* The messages syncAuditTag gives SetFailure.
NoDigestMessage(record) == <<"has no digest and cannot be verified", record.Name>>
LocalFailureMessage(out) == <<"Unable to verify release", out>>
JobFailureMessage(message) ==
  IF message # "" THEN <<"Unable to verify release", message>>
  ELSE <<"Unable to verify release for unknown reason", "">>

\* syncAuditTag(t) returns `value`, "nil" or "err", after making `calls`.
Return(t, value, calls) ==
  /\ pc' = [pc EXCEPT ![t] = value]
  /\ trace' = [trace EXCEPT ![t] = @ \o calls]
  /\ rec' = [rec EXCEPT ![t] = NoRecord]

\* syncAuditTag(t) goes on at `where` after making `calls`.
Goto(t, where, calls) ==
  /\ pc' = [pc EXCEPT ![t] = where]
  /\ trace' = [trace EXCEPT ![t] = @ \o calls]
  /\ UNCHANGED rec

\* c.auditQueue.AddAfter(releaseName, 10*time.Second)
AddAfter(t) == delayed' = delayed \cup {t}

\* c.auditTracker.SetFailure(record.Name, message), and when it marked a record.
MarkFailed(record, message) ==
  /\ records' = SetFailure(records, record.Name, message, now)
  /\ failedAt' = IF record.Name \in DOMAIN records
                 THEN [failedAt EXCEPT ![record.Name] = <<now>>]
                 ELSE failedAt

\* A worker takes t from the queue and syncAuditTag(t) starts: Get, the failure
\* gate and the digest check.  The queue hands a name to one worker at a time.
Dequeue(t) ==
  /\ t \in queue
  /\ pc[t] = "idle"
  /\ queue' = queue \ {t}
  /\ IF ~Get(records, t)
     THEN Return(t, "nil", << <<"Get", "missing">> >>)
     ELSE IF Gated(records[t])
     THEN Return(t, "nil", << <<"Get", "failed">> >>)
     ELSE /\ rec' = [rec EXCEPT ![t] = records[t]]
          /\ pc' = [pc EXCEPT ![t] = IF Unverifiable(records[t]) THEN "nodigest" ELSE "load"]
          /\ trace' = [trace EXCEPT ![t] =
                         << <<"Get", "ok", records[t].ID, records[t].Location>> >>]
  /\ UNCHANGED <<records, delayed, clock, config, jobs, signatures, history>>

\* Mutant: the record without a digest is given up without SetFailure.
FailNoDigest_WithoutSetFailure(t) ==
  /\ pc[t] = "nodigest"
  /\ Return(t, "nil", <<>>)
  /\ UNCHANGED <<records, queue, delayed, clock, config, jobs, signatures, history>>

\* The record had no digest: SetFailure and return.
FailNoDigest(t) ==
  /\ pc[t] = "nodigest"
  /\ MarkFailed(rec[t], NoDigestMessage(rec[t]))
  /\ Return(t, "nil", << <<"SetFailure", NoDigestMessage(rec[t])>> >>)
  /\ UNCHANGED <<queue, delayed, clock, config, jobs, signatures, signCalls, putCalls>>

\* Mutant: the answer of HasSignature is not acted on.
LoadRelease_WithoutShortCircuit(t, loaded, override) ==
  /\ pc[t] = "load"
  /\ loaded # "ok" => override = ""
  /\ IF loaded # "ok"
     THEN Return(t, loaded, << <<"loadReleaseForSync", loaded>> >>)
     ELSE LET image == AuditImage(cliImageForAudit, override)
              calls == << <<"loadReleaseForSync", loaded>>,
                          <<"HasSignature", rec[t].ID, HasSignature(rec[t].ID)>> >>
          IN IF image = ""
             THEN Return(t, "nil", calls)
             ELSE Goto(t, IF image = "local" THEN "local" ELSE "count", calls)
  /\ UNCHANGED <<records, queue, delayed, clock, config, jobs, signatures, history>>

\* loadReleaseForSync, HasSignature and the choice of the image.  `loaded` is
\* "err" (an error), "nil" (no release) or "ok", and then `override` is the
\* release's Config.OverrideCLIImage.
LoadRelease(t, loaded, override) ==
  /\ pc[t] = "load"
  /\ loaded # "ok" => override = ""
  /\ IF loaded # "ok"
     THEN Return(t, loaded, << <<"loadReleaseForSync", loaded>> >>)
     ELSE LET image == AuditImage(cliImageForAudit, override)
              calls == << <<"loadReleaseForSync", loaded>>,
                          <<"HasSignature", rec[t].ID, HasSignature(rec[t].ID)>> >>
          IN IF HasSignature(rec[t].ID) \/ image = ""
             THEN Return(t, "nil", calls)
             ELSE Goto(t, IF image = "local" THEN "local" ELSE "count", calls)
  /\ UNCHANGED <<records, queue, delayed, clock, config, jobs, signatures, history>>

\* Mutant: the audit is complete after verification, signer or not.
VerificationPassed_NeverSigns(t, calls) == Return(t, "nil", calls)

\* Verification passed: without a signer the audit is complete, else sign.
VerificationPassed(t, calls) ==
  IF signer THEN Goto(t, "sign", calls) ELSE Return(t, "nil", calls)

\* The Local backend: `oc adm release info --verify record.Location`, with the
\* exit status of the command; `out` is what it printed.
VerifyLocal(t, exit) ==
  /\ pc[t] = "local"
  /\ LET calls == << <<"exec", rec[t].Location, exit>> >>
         out == "verification failed"
     IN IF exit # 0
        THEN /\ MarkFailed(rec[t], LocalFailureMessage(out))
             /\ Return(t, "nil", calls \o << <<"SetFailure", LocalFailureMessage(out)>> >>)
        ELSE /\ VerificationPassed(t, calls)
             /\ UNCHANGED <<records, failedAt>>
  /\ UNCHANGED <<queue, delayed, clock, config, jobs, signatures, signCalls, putCalls>>

\* The admission throttle of the ClusterJob backend.
CountJobs(t, listFails) ==
  /\ pc[t] = "count"
  /\ LET counted == countAuditVerifyJobs(jobs, listFails)
         calls == << <<"List", IF counted[2] THEN "ok" ELSE "err", counted[1]>> >>
     IN IF Throttled(counted)
        THEN /\ AddAfter(t)
             /\ Return(t, "nil", calls \o << <<"AddAfter", t, RequeueDelay>> >>)
        ELSE /\ Goto(t, "ensure", calls)
             /\ UNCHANGED delayed
  /\ UNCHANGED <<records, queue, clock, config, jobs, signatures, history>>

\* ensureAuditVerifyJob and what syncAuditTag does with the job it returns.
\* `message` is what ensureJobTerminationMessageRetrieved finds for a failed job.
EnsureJob(t, ensureFails, message) ==
  /\ pc[t] = "ensure"
  /\ LET name == JobName(rec[t].ID)
         after == ensureJob(jobs, name, rec[t])
         done == jobIsComplete(after[name])
         calls == << <<"ensureJob", name,
                       IF name \in DOMAIN jobs THEN "found" ELSE "created">> >>
     IN IF ensureFails
        THEN /\ Return(t, "err", << <<"ensureJob", name, "err">> >>)
             /\ UNCHANGED <<jobs, delayed, records, failedAt>>
        ELSE /\ jobs' = after
             /\ IF ~done[2]
                THEN /\ AddAfter(t)
                     /\ Return(t, "nil", calls \o << <<"AddAfter", t, RequeueDelay>> >>)
                     /\ UNCHANGED <<records, failedAt>>
                ELSE IF ~done[1]
                THEN /\ MarkFailed(rec[t], JobFailureMessage(message))
                     /\ Return(t, "nil", calls \o
                               << <<"ensureJobTerminationMessageRetrieved", message>>,
                                  <<"SetFailure", JobFailureMessage(message)>> >>)
                     /\ UNCHANGED delayed
                ELSE /\ VerificationPassed(t, calls)
                     /\ UNCHANGED <<records, failedAt, delayed>>
  /\ UNCHANGED <<queue, clock, config, signatures, signCalls, putCalls>>

\* Sign and PutSignature.  `sig` is what Sign returns.
SignAndStore(t, signFails, sig, putFails) ==
  /\ pc[t] = "sign"
  /\ signFails => ~putFails
  /\ signCalls' = signCalls \cup {rec[t].ID}
  /\ putCalls' = IF signFails THEN putCalls ELSE putCalls \cup {rec[t].ID}
  /\ signatures' = IF signFails \/ putFails THEN signatures
                   ELSE signatures \cup {<<rec[t].ID, sig>>}
  /\ LET sign == <<"Sign", rec[t].ID, rec[t].Location, IF signFails THEN "err" ELSE sig>>
         put == <<"PutSignature", rec[t].ID, sig, IF putFails THEN "err" ELSE "ok">>
     IN Return(t, IF signFails \/ putFails THEN "err" ELSE "nil",
               IF signFails THEN <<sign>> ELSE <<sign, put>>)
  /\ UNCHANGED <<records, queue, delayed, clock, config, jobs, failedAt>>

\* The worker that called syncAuditTag(t) is done with t: after an error the
\* outer queue delivers t again, with a delay.
Done(t) ==
  /\ pc[t] \in {"nil", "err"}
  /\ pc' = [pc EXCEPT ![t] = "idle"]
  /\ trace' = [trace EXCEPT ![t] = <<>>]
  /\ delayed' = IF pc[t] = "err" THEN delayed \cup {t} ELSE delayed
  /\ UNCHANGED <<records, queue, clock, config, jobs, signatures, rec, history>>

\* ------------------------------------------------------------- environment
\* A verification job ends.
FinishJob(name, success) ==
  /\ name \in DOMAIN jobs
  /\ jobs[name].State = "running"
  /\ jobs' = [jobs EXCEPT ![name].State = IF success THEN "succeeded" ELSE "failed"]
  /\ UNCHANGED <<records, queue, delayed, clock, config, signatures, worker, history>>

\* The delay of a delayed tag name is over: it joins the queue.
DelayElapsed(t) ==
  /\ t \in delayed
  /\ delayed' = delayed \ {t}
  /\ queue' = queue \cup {t}
  /\ UNCHANGED <<records, clock, config, jobs, signatures, worker, history>>

\* Time passes.
Advance(minutes) ==
  /\ advances < MaxAdvances
  /\ advances' = advances + 1
  /\ now' = now + minutes
  /\ UNCHANGED <<records, queue, delayed, config, jobs, signatures, worker, history>>

\* ---------------------------------------------------------- specifications
\* The state after NewAuditTracker and the construction of the controller,
\* for a choice of the pinned image and of the signer.
Start(images, signers) ==
  /\ records = <<>>
  /\ queue = {}
  /\ delayed = {}
  /\ now = 0
  /\ advances = 0
  /\ cliImageForAudit \in images
  /\ signer \in signers
  /\ jobs = <<>>
  /\ signatures = {}
  /\ pc = [t \in TagNames |-> "idle"]
  /\ rec = [t \in TagNames |-> NoRecord]
  /\ trace = [t \in TagNames |-> <<>>]
  /\ signCalls = {}
  /\ putCalls = {}
  /\ failedAt = [t \in TagNames |-> <<>>]

\* The steps of syncAuditTag(t) every backend shares, for the answers
\* loadReleaseForSync can give.
Begin(t, loads, overrides) ==
  \/ Dequeue(t)
  \/ \E loaded \in loads, override \in overrides : LoadRelease(t, loaded, override)
  \/ Done(t)

\* The Local backend.
Local(t) == \E exit \in {0, 1} : VerifyLocal(t, exit)

\* The ClusterJob backend and the job control plane, with the errors job
\* control can answer with and the messages a failed job can leave.
ClusterJob(t, jobErrors, messages) ==
  \/ \E listFails \in jobErrors : CountJobs(t, listFails)
  \/ \E ensureFails \in jobErrors, message \in messages : EnsureJob(t, ensureFails, message)
  \/ \E name \in DOMAIN jobs, success \in BOOLEAN : FinishJob(name, success)

\* Signing, with the signatures and the errors signer and store can answer with.
Signing(t, sigs, signErrors) ==
  \E signFails \in signErrors, sig \in sigs, putFails \in signErrors :
    SignAndStore(t, signFails, sig, putFails)

\* ---- Spec: one tag, both backends, every collaborator error.
Tags == {"t1"}
Upstream ==
  { TagEntry("t1", TRUE, "Accepted", DigestA, "quay/r@a"),
    TagEntry("t1", TRUE, "Ready", DigestA, "mirror/r@a"),
    TagEntry("t1", TRUE, "Rejected", NoDigest, "quay/r:t1"),
    TagEntry("t1", TRUE, "Pending", DigestA, "quay/r@a"),
    TagEntry("t1", FALSE, "Accepted", DigestA, "quay/r@a"),
    TagEntry("", TRUE, "Accepted", DigestA, "quay/r@a") }
Releases ==
  { ReleaseDesc("4-stable", releaseConfigModeStable, tags) : tags \in TagLists(Upstream) }
  \cup { ReleaseDesc("4-dev", "Integration", {TagEntry("t1", TRUE, "Accepted", DigestA, "quay/r@a")}) }

Init == Start({"", "local"}, BOOLEAN)

Next ==
  \/ \E rl \in Releases : Sync(rl)
  \/ \E t \in Tags :
       \/ Begin(t, {"err", "nil", "ok"}, {"", "registry/cli"})
       \/ FailNoDigest(t)
       \/ Local(t)
       \/ ClusterJob(t, BOOLEAN, {"", "signature mismatch"})
       \/ Signing(t, {"sig1", "sig2"}, BOOLEAN)
       \/ DelayElapsed(t)

Spec == Init /\ [][Next]_vars


\* ---- SpecPair: two tags of one release that carry the same digest at
\* different locations, reconciled by parallel workers with either backend
\* (the release's override image chooses it) and a signer; no collaborator fails.
PairTags == {"t1", "t2"}
PairUpstream ==
  { TagEntry("t1", TRUE, "Accepted", DigestA, "quay/r@a"),
    TagEntry("t2", TRUE, "Accepted", DigestA, "mirror/r@a") }
PairReleases ==
  { ReleaseDesc("4-stable", releaseConfigModeStable, tags) : tags \in TagLists(PairUpstream) }

InitPair == Start({""}, {TRUE})

NextPair ==
  \/ \E rl \in PairReleases : Sync(rl)
  \/ \E t \in PairTags :
       \/ Begin(t, {"ok"}, {"local", "registry/cli"})
       \/ Local(t)
       \/ ClusterJob(t, {FALSE}, {""})
       \/ Signing(t, {"sig1"}, {FALSE})
       \/ DelayElapsed(t)

SpecPair == InitPair /\ [][NextPair]_vars

\* ---- SpecThrottle: the ClusterJob backend pinned, no signer, three digests
\* a tag can be given; job control can fail, jobs end either way.
ThrottleTags == {"t1"}
ThrottleUpstream ==
  { TagEntry("t1", TRUE, "Accepted", DigestA, "quay/r@a"),
    TagEntry("t1", TRUE, "Accepted", DigestC, "quay/r@c"),
    TagEntry("t1", TRUE, "Accepted", DigestD, "quay/r@d") }
ThrottleReleases ==
  { ReleaseDesc("4-stable", releaseConfigModeStable, tags) : tags \in TagLists(ThrottleUpstream) }

InitThrottle == Start({"registry/cli"}, {FALSE})

NextThrottle ==
  \/ \E rl \in ThrottleReleases : Sync(rl)
  \/ \E t \in ThrottleTags :
       \/ Begin(t, {"ok"}, {""})
       \/ ClusterJob(t, BOOLEAN, {""})
       \/ DelayElapsed(t)

SpecThrottle == InitThrottle /\ [][NextThrottle]_vars


\* ---- SpecClock: two stable releases whose tag lists share a tag name, the
\* Local backend pinned, no signer, and a clock that passes in steps of one
\* minute and of 11h59m.
ClockTags == {"t1"}
ClockSteps == {1, Cooldown - 1}
ClockReleases ==
  { ReleaseDesc("4-stable", releaseConfigModeStable, tags) :
      tags \in TagLists({ TagEntry("t1", TRUE, "Accepted", DigestA, "quay/r@a"),
                          TagEntry("t1", TRUE, "Accepted", DigestA, "mirror/r@a"),
                          TagEntry("t1", TRUE, "Accepted", DigestC, "quay/r@a") }) }
  \cup
  { ReleaseDesc("5-stable", releaseConfigModeStable, tags) :
      tags \in TagLists({ TagEntry("t1", TRUE, "Accepted", DigestA, "quay/r@a") }) }

InitClock == Start({"local"}, {FALSE})

NextClock ==
  \/ \E rl \in ClockReleases : Sync(rl)
  \/ \E t \in ClockTags :
       \/ Begin(t, {"ok"}, {""})
       \/ Local(t)
  \/ \E minutes \in ClockSteps : Advance(minutes)

SpecClock == InitClock /\ [][NextClock]_vars


\* ---- SpecFail: two tags of one release reconciled by parallel workers with
\* the Local backend pinned and no signer, while the clock ticks minutes.
FailTags == {"t1", "t2"}
FailUpstream ==
  { TagEntry("t1", TRUE, "Accepted", DigestA, "quay/r@a"),
    TagEntry("t2", TRUE, "Ready", DigestC, "quay/r@c") }
FailReleases ==
  { ReleaseDesc("4-stable", releaseConfigModeStable, tags) : tags \in TagLists(FailUpstream) }

InitFail == Start({"local"}, {FALSE})

NextFail ==
  \/ \E rl \in FailReleases : Sync(rl)
  \/ \E t \in FailTags :
       \/ Begin(t, {"ok"}, {""})
       \/ Local(t)
  \/ Advance(1)

SpecFail == InitFail /\ [][NextFail]_vars

\* ---- SpecLive: one digest of one tag on the ClusterJob backend, in a
\* cluster that already runs two verification jobs, with or without a signer
\* and with errors of every collaborator, under fair scheduling: a queued name is taken up, a
\* returned worker is released, a delay runs out, a running job ends, and a
\* collaborator that is called again and again eventually answers without error.
LiveTags == {"t1"}
LiveUpstream == {TagEntry("t1", TRUE, "Accepted", DigestA, "quay/r@a")}
LiveReleases ==
  { ReleaseDesc("4-stable", releaseConfigModeStable, tags) : tags \in TagLists(LiveUpstream) }

\* The verification jobs of two other digests, created before the controller
\* was constructed and still running in the cluster.
EarlierJobs ==
  (JobName(DigestC) :> NewJob([Name |-> "t1", Location |-> "quay/r@c"]))
    @@ (JobName(DigestD) :> NewJob([Name |-> "t1", Location |-> "quay/r@d"]))
LiveJobNames == DOMAIN EarlierJobs \cup {JobName(tag.ID) : tag \in LiveUpstream}

InitLive ==
  /\ records = <<>>
  /\ queue = {}
  /\ delayed = {}
  /\ now = 0
  /\ advances = 0
  /\ cliImageForAudit = "registry/cli"
  /\ signer \in BOOLEAN
  /\ jobs = EarlierJobs
  /\ signatures = {}
  /\ pc = [t \in TagNames |-> "idle"]
  /\ rec = [t \in TagNames |-> NoRecord]
  /\ trace = [t \in TagNames |-> <<>>]
  /\ signCalls = {}
  /\ putCalls = {}
  /\ failedAt = [t \in TagNames |-> <<>>]

NextLive ==
  \/ \E rl \in LiveReleases : Sync(rl)
  \/ \E t \in LiveTags :
       \/ Begin(t, {"err", "ok"}, {""})
       \/ ClusterJob(t, BOOLEAN, {""})
       \/ Signing(t, {"sig1"}, BOOLEAN)
       \/ DelayElapsed(t)

Fairness ==
  /\ \A t \in LiveTags :
       /\ WF_vars(Dequeue(t))
       /\ WF_vars(Done(t))
       /\ WF_vars(DelayElapsed(t))
       /\ SF_vars(LoadRelease(t, "ok", ""))
       /\ SF_vars(CountJobs(t, FALSE))
       /\ SF_vars(EnsureJob(t, FALSE, ""))
       /\ SF_vars(SignAndStore(t, FALSE, "sig1", FALSE))
  /\ \A name \in LiveJobNames : WF_vars(\E success \in BOOLEAN : FinishJob(name, success))

SpecLive == InitLive /\ [][NextLive]_vars /\ Fairness

\* ------------------------------------------------------------------ claims
\* The signatures Sign returns in the specifications above.
AllSignatures == {"sig1", "sig2"}

\* syncAuditTag(t) invokes Sign in this step.
SignStep(t) == pc[t] = "sign" /\ pc'[t] # "sign"

\* syncAuditTag(t) invokes PutSignature in this step.
PutStep(t) == \E sig \in AllSignatures, putFails \in BOOLEAN : SignAndStore(t, FALSE, sig, putFails)

\* C1: at-most-once signing.  Whenever a reconciliation invokes Sign with a
\* digest, Sign was never invoked with that digest before, and whenever it
\* invokes PutSignature with a digest, PutSignature was never invoked with that
\* digest before.
C1_AtMostOnceSigning ==
  [][\A t \in TagNames :
       /\ SignStep(t) => rec[t].ID \notin signCalls
       /\ PutStep(t) => rec[t].ID \notin putCalls]_vars

\* A successful verification run against this location: the local tool in the
\* running reconciliation of t, or a complete and successful job whose verify
\* command was given the location.
VerifiedAt(t, location) ==
  \/ \E i \in 1..Len(trace[t]) : trace[t][i] = <<"exec", location, 0>>
  \/ \E name \in DOMAIN jobs : jobs[name].State = "succeeded" /\ jobs[name].Location = location

\* C2: sign only after verification.  A reconciliation that is about to invoke
\* Sign(record.ID, record.Location) has a successful verification run against
\* record.Location behind it.
C2_SignOnlyVerified ==
  \A t \in TagNames : pc[t] = "sign" => VerifiedAt(t, rec[t].Location)

\* The last call syncAuditTag(t) made, after this step.
LastCall(t) == trace'[t][Len(trace'[t])]

\* syncAuditTag(t) returns in this step.
Returns(t) == pc[t] \notin {"idle", "nil", "err"} /\ pc'[t] \in {"nil", "err"}

\* The kinds of the calls syncAuditTag(t) has made, in order.
Kinds(t) == [i \in 1..Len(trace[t]) |-> trace[t][i][1]]

\* The calls that are verification work.
WorkCalls == {"exec", "List", "ensureJob", "Sign", "PutSignature", "SetFailure"}

\* A reconciliation of t has done verification work.
WorkDone(t) == \E i \in 1..Len(trace[t]) : trace[t][i][1] \in WorkCalls

\* C3, as stated: sticky failure gating.  From a SetFailure for a tag until
\* more than 12 hours have passed since it, no reconciliation of the tag does
\* verification work, whatever Sync calls occur: the only reconciliation seen
\* with work behind it is the one that has just returned from that SetFailure.
C3_StickyFailureGating ==
  \A t \in TagNames :
    (failedAt[t] # <<>> /\ now - failedAt[t][1] <= 720 /\ WorkDone(t))
      => (pc[t] = "nil" /\ trace[t][Len(trace[t])][1] = "SetFailure")

\* C3, amended: while a failed record stays tracked and at most 12 hours have
\* passed since its observedAt, no step changes it, whatever Sync is called
\* with, and every reconciliation of its tag returns nil after Get alone,
\* leaving tracker, jobs, signatures and delayed requeues as they were.
C3_GatedWhileTracked ==
  [][\A t \in TagNames :
       (Tracked(t) /\ records[t].Failure # NoFailure) =>
         /\ (now - records[t].At <= 720 /\ t \in DOMAIN records') => records'[t] = records[t]
         /\ (t \in queue /\ t \notin queue') =>
              /\ pc'[t] = "nil"
              /\ trace'[t] = << <<"Get", "failed">> >>
              /\ UNCHANGED <<records, jobs, signatures, delayed, history>>]_vars

\* A reconciliation at 11h59m after the failure found the tag gated.
C3_GatedAtCooldownEdge ==
  /\ Tracked("t1")
  /\ records["t1"].Failure # NoFailure
  /\ now - records["t1"].At = 719
  /\ pc["t1"] = "nil"
  /\ trace["t1"] = << <<"Get", "failed">> >>

\* C4: throttle limit.  The number of unfinished audit verification jobs is
\* at most 2 in every reachable state.
C4_ThrottleLimit ==
  Cardinality({name \in DOMAIN jobs :
                 jobs[name].Purpose = "audit" /\ jobs[name].State = "running"}) <= 2

\* C5: the admission throttle fails closed.  When the job listing returns an
\* error, countAuditVerifyJobs answers ok = false and the reconciliation makes
\* no ensure call and creates no job, whatever the number of unfinished jobs;
\* it requeues the tag after 10 seconds, sets no failure and returns nil.
C5_ListErrorFailsClosed ==
  [][\A t \in TagNames :
       CountJobs(t, TRUE) =>
         /\ ~countAuditVerifyJobs(jobs, TRUE)[2]
         /\ jobs' = jobs
         /\ \A i \in 1..Len(trace'[t]) : trace'[t][i][1] # "ensureJob"
         /\ LastCall(t) = <<"AddAfter", t, 10>>
         /\ delayed' = delayed \cup {t}
         /\ records' = records /\ failedAt' = failedAt
         /\ pc'[t] = "nil"]_vars

\* The listing failed while fewer than two jobs were unfinished, and the
\* reconciliation ended in a requeue.
C5_ListErrorWithCapacity ==
  /\ pc["t1"] = "nil"
  /\ \E i \in 1..Len(trace["t1"]) : trace["t1"][i] = <<"List", "err", 0>>
  /\ UnfinishedCount(jobs) < 2
  /\ "t1" \in delayed

\* C6: garbage-collection scoping.  Sync of a stable release R1 deletes
\* exactly the records R1 owns whose tag is no longer in R1's tag list, and
\* leaves every record another release owns as it was, also when R1 lists a
\* tag of that name.
C6_SyncScopedToRelease ==
  [][\A rl \in ClockReleases :
       (rl.As = releaseConfigModeStable /\ Sync(rl)) =>
         /\ DOMAIN records \ DOMAIN records' =
              {k \in DOMAIN records :
                 records[k].Release = rl.Name /\ k \notin {tag.Name : tag \in rl.Tags}}
         /\ \A k \in DOMAIN records :
              records[k].Release # rl.Name =>
                (k \in DOMAIN records' /\ records'[k] = records[k])]_vars

\* C7: no-digest immediate failure.  The reconciliation that takes up a
\* tracked record with an empty digest and no failure goes straight from Get
\* to SetFailure: the record becomes failed with reason VerificationFailed,
\* the reconciliation returns nil, and it has made no other call: jobs,
\* signatures, signer and store calls, queue and requeues are as before.
C7_NoDigestFailsAtOnce ==
  [][\A t \in TagNames :
       /\ (Dequeue(t) /\ Tracked(t) /\ records[t].Failure = NoFailure /\ Len(records[t].ID) = 0)
            => (pc'[t] = "nodigest" /\ Len(trace'[t]) = 1 /\ trace'[t][1][1] = "Get")
       /\ (pc[t] = "nodigest" /\ pc'[t] # "nodigest") =>
            /\ pc'[t] = "nil"
            /\ Len(trace'[t]) = 2 /\ trace'[t][1][1] = "Get" /\ trace'[t][2][1] = "SetFailure"
            /\ (Tracked(t) /\ records[t].Failure = NoFailure /\ Len(records[t].ID) = 0) =>
                 /\ t \in DOMAIN records'
                 /\ Len(records'[t].Failure) = 1
                 /\ records'[t].Failure[1].Reason = "VerificationFailed"
                 /\ records'[t].Failure[1].Message = trace'[t][2][2]
            /\ UNCHANGED <<jobs, signatures, signCalls, putCalls, queue, delayed>>]_vars

\* A record without a digest was marked failed by a reconciliation that
\* called Get and SetFailure only.
C7_NoDigestMarked ==
  /\ pc["t1"] = "nil"
  /\ Kinds("t1") = <<"Get", "SetFailure">>
  /\ Tracked("t1")
  /\ Len(records["t1"].ID) = 0
  /\ records["t1"].Failure # NoFailure

\* C8: over-limit throttling.  In cluster-job mode a reconciliation whose
\* listing succeeds and counts more than 2 unfinished audit jobs creates no
\* job, sets no failure, returns nil, invokes neither Sign nor PutSignature and
\* schedules exactly one requeue of its tag name, 10 seconds later.
C8_OverLimitRequeues ==
  [][\A t \in TagNames :
       (CountJobs(t, FALSE) /\ UnfinishedCount(jobs) > 2) =>
         /\ jobs' = jobs
         /\ records' = records /\ failedAt' = failedAt
         /\ pc'[t] = "nil"
         /\ UNCHANGED <<signCalls, putCalls, signatures>>
         /\ delayed' = delayed \cup {t}
         /\ trace'[t] = trace[t] \o << <<"List", "ok", UnfinishedCount(jobs)>>,
                                       <<"AddAfter", t, 10>> >>
         /\ \A i \in 1..Len(trace[t]) :
              trace[t][i][1] \in {"Get", "loadReleaseForSync", "HasSignature"}]_vars

\* A reconciliation that counted three unfinished jobs ended in a requeue.
C8_ThrottledAtThree ==
  /\ pc["t1"] = "nil"
  /\ Kinds("t1") = <<"Get", "loadReleaseForSync", "HasSignature", "List", "AddAfter">>
  /\ trace["t1"][4] = <<"List", "ok", 3>>
  /\ "t1" \in delayed

\* C9: local success path.  With the local mode pinned and a signer
\* configured, a reconciliation whose local tool exited 0 goes on to sign; when
\* it has returned it has called Get, loadReleaseForSync, HasSignature (which
\* answered no), the tool on the record's location, Sign once with the record's
\* digest and location and, when Sign returned bytes, PutSignature once with
\* that digest and those bytes, and neither SetFailure nor AddAfter.
C9_LocalSuccessSignsOnce ==
  \A t \in TagNames :
    (cliImageForAudit = "local" /\ signer /\
     \E i \in 1..Len(trace[t]) : trace[t][i][1] = "exec" /\ trace[t][i][3] = 0) =>
      LET calls == trace[t]
          id == calls[1][3]
          location == calls[1][4]
      IN /\ pc[t] \in {"sign", "nil", "err"}
         /\ calls[1][2] = "ok" /\ Len(id) > 0
         /\ calls[3] = <<"HasSignature", id, FALSE>>
         /\ calls[4] = <<"exec", location, 0>>
         /\ pc[t] = "sign" => Kinds(t) = <<"Get", "loadReleaseForSync", "HasSignature", "exec">>
         /\ pc[t] # "sign" =>
              /\ Len(calls) >= 5
              /\ calls[5][1] = "Sign" /\ calls[5][2] = id /\ calls[5][3] = location
              /\ IF calls[5][4] = "err"
                 THEN Len(calls) = 5 /\ pc[t] = "err"
                 ELSE /\ Len(calls) = 6
                      /\ calls[6][1] = "PutSignature" /\ calls[6][2] = id
                      /\ calls[6][3] = calls[5][4]
                      /\ pc[t] = (IF calls[6][4] = "ok" THEN "nil" ELSE "err")
                      /\ calls[6][4] = "ok" => <<id, calls[5][4]>> \in signatures

\* The local tool exited 0, Sign and PutSignature were called and the
\* signature is stored.
C9_LocalSignedAndStored ==
  /\ cliImageForAudit = "local" /\ signer
  /\ pc["t1"] = "nil"
  /\ Kinds("t1") = <<"Get", "loadReleaseForSync", "HasSignature", "exec", "Sign", "PutSignature">>
  /\ trace["t1"][4][3] = 0
  /\ <<trace["t1"][1][3], trace["t1"][5][4]>> \in signatures

\* C10: failure is recorded only for artifact faults.  A tracked record's
\* failure goes from unset to set only when its digest is empty, the local
\* tool exited non-zero on its location, or the job of its digest is complete
\* and unsuccessful.  A reconciliation that ends in a requeue (throttled,
\* listing error, job still running) returns nil and one that ends in an
\* ensureJob, Sign or PutSignature error returns an error, and both leave
\* every tracker record unchanged.
C10_FailureOnlyForArtifactFaults ==
  [][\A t \in TagNames :
       /\ (Tracked(t) /\ t \in DOMAIN records' /\
           records[t].Failure = NoFailure /\ records'[t].Failure # NoFailure) =>
            \/ Len(records[t].ID) = 0
            \/ \E i \in 1..Len(trace'[t]) :
                 /\ trace'[t][i][1] = "exec"
                 /\ trace'[t][i][2] = records[t].Location
                 /\ trace'[t][i][3] # 0
            \/ /\ JobName(records[t].ID) \in DOMAIN jobs'
               /\ jobs'[JobName(records[t].ID)].State = "failed"
       /\ (Returns(t) /\ LastCall(t)[1] = "AddAfter") =>
            (pc'[t] = "nil" /\ records' = records)
       /\ (Returns(t) /\ LastCall(t)[1] \in {"ensureJob", "Sign", "PutSignature"}
                      /\ LastCall(t)[Len(LastCall(t))] = "err") =>
            (pc'[t] = "err" /\ records' = records)]_vars

\* The release lists tag t with a digest or a location other than the stored one.
Drifted(rl, t) ==
  \E tag \in rl.Tags :
    tag.Name = t /\ (tag.ID # records[t].ID \/ tag.Location # records[t].Location)

\* Sync(rl) clears the failure of the record of t in this step.
ClearsFailure(rl, t) ==
  /\ Sync(rl)
  /\ Tracked(t) /\ records[t].Failure # NoFailure
  /\ t \in DOMAIN records' /\ records'[t].Failure = NoFailure

\* C11, as stated: automatic retry requires both conditions.  Sync clears the
\* failure of a record only if the tag's upstream digest or location differs
\* from the stored one and more than 12 hours have passed since observedAt.
C11_RetryNeedsDriftAndCooldown ==
  [][\A rl \in ClockReleases, t \in TagNames :
       ClearsFailure(rl, t) => (Drifted(rl, t) /\ now - records[t].At > 720)]_vars

\* C11, amended: the cooldown alone decides.  A Sync that keeps a failed
\* record clears its failure exactly when the release is stable, lists the tag
\* as audited and more than 12 hours have passed since observedAt, whether or
\* not digest or location changed; it then sets observedAt to the current time.
C11_ClearedByCooldownAlone ==
  [][\A rl \in ClockReleases, t \in TagNames :
       (Sync(rl) /\ Tracked(t) /\ records[t].Failure # NoFailure /\ t \in DOMAIN records') =>
         IF /\ rl.As = "Stable"
            /\ \E tag \in rl.Tags :
                 /\ tag.Name = t /\ tag.Source
                 /\ tag.Phase \in {"Accepted", "Ready", "Rejected"}
            /\ now - records[t].At > 720
         THEN records'[t] = [records[t] EXCEPT !.At = now, !.Failure = NoFailure]
         ELSE records'[t] = records[t]]_vars

\* A record that failed more than 12 hours ago is tracked at its first
\* location with no failure and a fresh observedAt, and its tag is queued.
C11_ClearedAfterCooldown ==
  /\ failedAt["t1"] # <<>>
  /\ now - failedAt["t1"][1] > 720
  /\ Tracked("t1")
  /\ records["t1"].Failure = NoFailure
  /\ records["t1"].At = now
  /\ records["t1"].Location = "quay/r@a"
  /\ "t1" \in queue

\* C12: the frame of SetFailure.  When a reconciliation of t calls
\* SetFailure(t, message) and the record exists, its failure becomes
\* {VerificationFailed, message} and its observedAt the current time; its other
\* fields and every other record stay as they were.  When there is no record
\* of that name, the tracker stays as it was.  Either way no record is created
\* and nothing is enqueued, at once or with a delay.
C12_SetFailureFrame ==
  [][\A t \in TagNames :
       (Returns(t) /\ LastCall(t)[1] = "SetFailure") =>
         /\ IF t \in DOMAIN records
            THEN /\ DOMAIN records' = DOMAIN records
                 /\ records'[t] =
                      [records[t] EXCEPT
                         !.At = now,
                         !.Failure = <<[Reason |-> "VerificationFailed",
                                        Message |-> LastCall(t)[2]]>>]
                 /\ \A k \in DOMAIN records \ {t} : records'[k] = records[k]
            ELSE records' = records
         /\ queue' = queue
         /\ delayed' = delayed]_vars

\* SetFailure has just marked the record of t1, minutes after Sync stored it,
\* while the record of t2 is tracked, older and not failed.
C12_MarkedBesideAnother ==
  /\ pc["t1"] = "nil"
  /\ Len(trace["t1"]) > 0
  /\ trace["t1"][Len(trace["t1"])][1] = "SetFailure"
  /\ Tracked("t1") /\ records["t1"].Failure # NoFailure
  /\ records["t1"].At = now /\ now > 0
  /\ Tracked("t2") /\ records["t2"].Failure = NoFailure
  /\ records["t2"].At < now

\* The store holds a signature for the digest.
Signed(dgst) == \E s \in signatures : s[1] = dgst

\* The reconciliation of t, holding a record with no failure, goes on from
\* Get while the store holds a signature for the record's digest.
ReconcilesSigned(t) ==
  /\ pc[t] = "load" /\ pc'[t] # "load"
  /\ rec[t].Failure = NoFailure
  /\ Signed(rec[t].ID)

\* What a no-op reconciliation of t leaves alone, and the calls it does not make.
NoOpStep(t) ==
  /\ UNCHANGED <<records, jobs, signatures, delayed, queue, signCalls, putCalls, failedAt>>
  /\ \A i \in 1..Len(trace'[t]) :
       trace'[t][i][1] \in {"Get", "loadReleaseForSync", "HasSignature"}

\* C13, as stated: signed short-circuit.  Once the store holds a signature
\* for digest d, a reconciliation of a record with digest d and no failure
\* runs no tool, lists and creates no job, schedules no requeue, calls neither
\* Sign nor PutSignature, sets no failure, and returns no error.
C13_SignedShortCircuit ==
  [][\A t \in TagNames : ReconcilesSigned(t) => (NoOpStep(t) /\ pc'[t] = "nil")]_vars

\* C13, amended: as stated, except that the reconciliation returns the error
\* of loadReleaseForSync when loading the release fails, and nil otherwise.
C13_SignedShortCircuitUnlessLoadFails ==
  [][\A t \in TagNames :
       ReconcilesSigned(t) =>
         /\ NoOpStep(t)
         /\ pc'[t] \in {"nil", "err"}
         /\ pc'[t] = "err" <=> LastCall(t) = <<"loadReleaseForSync", "err">>
         /\ pc'[t] = "nil" =>
              \/ LastCall(t) = <<"loadReleaseForSync", "nil">>
              \/ LastCall(t) = <<"HasSignature", rec[t].ID, TRUE>>]_vars

\* After Sign was called for the digest and the signature stored, a later
\* reconciliation of the tag ended at HasSignature.
C13_ReconciledAfterSigning ==
  /\ pc["t1"] = "nil"
  /\ Kinds("t1") = <<"Get", "loadReleaseForSync", "HasSignature">>
  /\ trace["t1"][3] = <<"HasSignature", DigestA, TRUE>>
  /\ signCalls = {DigestA}
  /\ Signed(DigestA)

\* C14: drift does not clear failure.  When Sync of a stable release sees, for
\* an audited tag whose record is failed, a digest or location that differs
\* from the stored one, and at most 12 hours have passed since observedAt, it
\* enqueues the tag name and leaves the record, its failure and observedAt
\* included, as it was; and whenever Sync clears a failure, more than 12 hours
\* have passed since observedAt, with or without drift.
C14_DriftKeepsFailure ==
  [][\A rl \in ClockReleases, t \in TagNames :
       /\ (/\ Sync(rl) /\ rl.As = "Stable"
           /\ Tracked(t) /\ records[t].Failure # NoFailure
           /\ now - records[t].At <= 720
           /\ \E tag \in rl.Tags :
                /\ tag.Name = t /\ tag.Source
                /\ tag.Phase \in {"Accepted", "Ready", "Rejected"}
                /\ (tag.ID # records[t].ID \/ tag.Location # records[t].Location))
            => (t \in queue' /\ t \in DOMAIN records' /\ records'[t] = records[t])
       /\ ClearsFailure(rl, t) => now - records[t].At > 720]_vars

\* A record that failed some minutes ago, less than 12 hours, is still failed
\* with its observedAt, and its tag name is queued for an idle worker.
C14_FailedAndQueued ==
  /\ Tracked("t1")
  /\ records["t1"].Failure # NoFailure
  /\ failedAt["t1"] = <<records["t1"].At>>
  /\ records["t1"].At < now /\ now - records["t1"].At <= 720
  /\ "t1" \in queue
  /\ pc["t1"] = "idle"

\* C15: the admission check applies only to new dispatches.  In cluster-job
\* mode, when the job of the record's digest already exists and is complete,
\* the reconciliation acts on its status in that same pass (it goes on to
\* verification passed or to SetFailure) and does not end in the throttle's
\* requeue, whatever the count of unfinished jobs and the outcome of the listing.
C15_ThrottleOnlyNewDispatch ==
  [][\A t \in TagNames :
       (/\ pc[t] = "count" /\ pc'[t] # "count"
        /\ JobName(rec[t].ID) \in DOMAIN jobs
        /\ jobs[JobName(rec[t].ID)].State # "running")
         => /\ LastCall(t)[1] # "AddAfter"
            /\ t \notin delayed' \ delayed]_vars

\* C16: deletion only on disappearance.  Sync of a stable release deletes a
\* record the release owns if and only if no tag of that name is in the
\* release's tag list; a tag that is listed keeps its record, whatever its
\* phase and whether or not it carries the audit-source marker.
C16_DeletedOnlyWhenUnlisted ==
  [][\A rl \in Releases, t \in TagNames :
       (/\ Sync(rl) /\ rl.As = "Stable"
        /\ Tracked(t) /\ records[t].Release = rl.Name)
         => (t \notin DOMAIN records' <=> t \notin {tag.Name : tag \in rl.Tags})]_vars

\* The override images a release can carry in the specifications above.
AllOverrides == {"", "local", "registry/cli"}

\* C17: backend selection.  The tool image is the pinned image if one is
\* configured, else the release's override image.  A reconciliation that has
\* loaded its release and found no signature runs the Local backend only when
\* the pinned image is "local", never because of the override; with any other
\* resolved image it goes to the ClusterJob backend; with no image it returns
\* nil and has made no further call nor changed anything.
C17_BackendSelection ==
  [][\A t \in TagNames, override \in AllOverrides :
       (LoadRelease(t, "ok", override) /\ ~Signed(rec[t].ID)) =>
         LET image == IF cliImageForAudit # "" THEN cliImageForAudit ELSE override
         IN IF image = "" THEN pc'[t] = "nil" /\ NoOpStep(t)
            ELSE IF cliImageForAudit = "local" THEN pc'[t] = "local"
            ELSE pc'[t] = "count"]_vars

\* The fields of a record that say which artifact it is and where it came from.
Identity(r) ==
  <<r.Name, r.ID, r.Location, r.Release, r.ImageStreamName, r.ImageStreamNamespace>>

\* C18: a record's identity fields are fixed at creation.  No step changes
\* the name, digest, location, release or image stream of a record that stays
\* tracked; a Sync of a stable release that lists the tag, audited, with
\* another digest or location enqueues the tag name, every time; the copy a
\* reconciliation gets is the stored record, and the local tool is run on the
\* copy's location.
C18_IdentityFixed ==
  [][\A t \in TagNames :
       /\ (Tracked(t) /\ t \in DOMAIN records') => Identity(records'[t]) = Identity(records[t])
       /\ \A rl \in ClockReleases :
            (/\ Sync(rl) /\ rl.As = "Stable" /\ Tracked(t)
             /\ \E tag \in rl.Tags :
                  /\ tag.Name = t /\ tag.Source
                  /\ tag.Phase \in {"Accepted", "Ready", "Rejected"}
                  /\ (tag.ID # records[t].ID \/ tag.Location # records[t].Location))
              => t \in queue'
       /\ (pc[t] = "idle" /\ pc'[t] = "load") => rec'[t] = records[t]
       /\ (pc[t] = "local" /\ pc'[t] # "local") =>
            \E i \in 1..Len(trace'[t]) :
              trace'[t][i][1] = "exec" /\ trace'[t][i][2] = rec[t].Location]_vars

\* The tag was verified at the location stored when its record was created,
\* and while that reconciliation ran the tag name was queued again; the record
\* is older than the current time and has the location it was created with.
C18_VerifiedAtStoredLocation ==
  /\ pc["t1"] = "nil"
  /\ Kinds("t1") = <<"Get", "loadReleaseForSync", "HasSignature", "exec">>
  /\ Tracked("t1")
  /\ trace["t1"][4][2] = records["t1"].Location
  /\ records["t1"].Location = "mirror/r@a"
  /\ records["t1"].At < now
  /\ "t1" \in queue

\* C19: failure attribution under concurrent Sync.  When a reconciliation
\* calls SetFailure and the record now tracked under the tag name is not the
\* one it read through Get (Sync deleted and recreated it with another digest
\* or location in between), the tracked record is left as it is.
C19_FailureLandsOnRecordRead ==
  [][\A t \in TagNames :
       (/\ Returns(t) /\ LastCall(t)[1] = "SetFailure"
        /\ Tracked(t) /\ Identity(records[t]) # Identity(rec[t]))
         => (t \in DOMAIN records' /\ records'[t] = records[t])]_vars

\* The record of t is tracked with a digest and no failure.
Pending(t) ==
  /\ Tracked(t)
  /\ Len(records[t].ID) > 0
  /\ records[t].Failure = NoFailure

\* A reconciliation of the tracked record of t has returned nil after its
\* verification passed, there being no signer.
AuditOnlyDone(t) ==
  /\ ~signer
  /\ Tracked(t)
  /\ pc[t] = "nil"
  /\ Len(trace[t]) > 1
  /\ trace[t][1] = <<"Get", "ok", records[t].ID, records[t].Location>>
  /\ \/ trace[t][Len(trace[t])] = <<"exec", records[t].Location, 0>>
     \/ /\ trace[t][Len(trace[t])][1] = "ensureJob"
        /\ JobName(records[t].ID) \in DOMAIN jobs
        /\ jobs[JobName(records[t].ID)].State = "succeeded"

\* The tag name t is enqueued, delayed, or in the hands of a worker.
Scheduled(t) == t \in queue \cup delayed \/ pc[t] # "idle"

====
